---- MODULE Spec2Model ----
(***************************************************************************)
(* Path confinement of the windtools-mcp file tools                       *)
(* (src/src/windtools_mcp/server.py).                                      *)
(*                                                                         *)
(* A Python str is a sequence of one-character strings, so that            *)
(* str.startswith, os.path.normpath, os.path.join and os.path.dirname are  *)
(* computed character by character, as posixpath computes them.  The file  *)
(* system maps a tuple of names (the path from "/") to a node.             *)
(*                                                                         *)
(* The allowed-roots operations and the command registry are not in        *)
(* server.py; they are modelled from spec.md (sections 3, 4.3, 4.4, 4.5).  *)
(***************************************************************************)
EXTENDS Integers, Sequences, FiniteSets, TLC

VARIABLES
    working_directory,  \* ServerContext.working_directory: a str, or None
    cwd,                \* the process current directory (os.getcwd())
    fs,                 \* the file system: node path -> node
    result,             \* the call being answered: its arguments and what it returns
    gate,               \* the validate_path call of that call and its outcome
    touched,            \* node paths that call accessed after validation
    prev,               \* working_directory, cwd and fs before that call
    mutations,          \* calls so far that were allowed to change the file system
    wd_set_by,          \* the operation that last changed working_directory
    allowed_roots,      \* the allowed roots, in the order they were added
    command_registry,   \* command identifier -> command record
    waiting,            \* the register call that waits for early output, if any
    inflight,           \* the calls that run at the same time: where each one is
    last_call           \* the call answered before the one in result, where that is noted

vars == <<working_directory, cwd, fs, result, gate, touched, prev, mutations, wd_set_by, allowed_roots, command_registry, waiting, inflight, last_call>>

-----------------------------------------------------------------------------
(* Python str values and os.path (posixpath)                               *)

None == <<"<None>">>
Empty == <<>>
Sl == <<"/">>
Dot == <<".">>
DotDot == <<".", ".">>
Tilde == <<"~">>

\* Python truthiness of an Optional[str]
falsy(s) == s = None \/ s = Empty

startswith(s, prefix) == Len(prefix) <= Len(s) /\ SubSeq(s, 1, Len(prefix)) = prefix

endswith(s, suffix) == Len(suffix) <= Len(s) /\ SubSeq(s, Len(s) - Len(suffix) + 1, Len(s)) = suffix

\* s[i:]  (0-based i)
strfrom(s, i) == SubSeq(s, i + 1, Len(s))

isabs(s) == startswith(s, Sl)

\* s.find("/") as a 1-based index, 0 when there is none
findsep(s) == IF \E i \in 1..Len(s) : s[i] = "/" THEN CHOOSE i \in 1..Len(s) : s[i] = "/" /\ \A j \in 1..(i - 1) : s[j] # "/" ELSE 0

\* s.rfind("/") as a 1-based index, 0 when there is none
rfindsep(s) == IF \E i \in 1..Len(s) : s[i] = "/" THEN CHOOSE i \in 1..Len(s) : s[i] = "/" /\ \A j \in (i + 1)..Len(s) : s[j] # "/" ELSE 0

RECURSIVE split(_)
\* s.split("/")
split(s) == IF findsep(s) = 0 THEN <<s>> ELSE <<SubSeq(s, 1, findsep(s) - 1)>> \o split(SubSeq(s, findsep(s) + 1, Len(s)))

RECURSIVE sepjoin(_)
\* "/".join(comps)
sepjoin(comps) == IF comps = <<>> THEN Empty ELSE IF Len(comps) = 1 THEN comps[1] ELSE comps[1] \o Sl \o sepjoin(Tail(comps))

RECURSIVE rstripsep(_)
\* s.rstrip("/")
rstripsep(s) == IF s # Empty /\ s[Len(s)] = "/" THEN rstripsep(SubSeq(s, 1, Len(s) - 1)) ELSE s

\* os.path.join(a, b)
join(a, b) == IF startswith(b, Sl) THEN b ELSE IF a = Empty \/ endswith(a, Sl) THEN a \o b ELSE a \o Sl \o b

RECURSIVE collapse(_, _, _)
\* the loop of posixpath.normpath over the components
collapse(comps, new_comps, initial_slashes) ==
    IF comps = <<>> THEN new_comps
    ELSE IF Head(comps) = Empty \/ Head(comps) = Dot
        THEN collapse(Tail(comps), new_comps, initial_slashes)
    ELSE IF Head(comps) # DotDot \/ (initial_slashes = 0 /\ Len(new_comps) = 0) \/ (Len(new_comps) > 0 /\ new_comps[Len(new_comps)] = DotDot)
        THEN collapse(Tail(comps), Append(new_comps, Head(comps)), initial_slashes)
    ELSE IF Len(new_comps) > 0
        THEN collapse(Tail(comps), SubSeq(new_comps, 1, Len(new_comps) - 1), initial_slashes)
    ELSE collapse(Tail(comps), new_comps, initial_slashes)

\* the number of leading slashes posixpath.normpath keeps
initial_slashes_of(path) ==
    IF ~startswith(path, Sl) THEN 0
    ELSE IF startswith(path, Sl \o Sl) /\ ~startswith(path, Sl \o Sl \o Sl) THEN 2
    ELSE 1

\* "/" * initial_slashes + "/".join(comps), or "." when that is empty
normjoin(initial_slashes, comps) ==
    IF initial_slashes = 0 /\ comps = <<>> THEN Dot
    ELSE (IF initial_slashes = 0 THEN Empty ELSE IF initial_slashes = 1 THEN Sl ELSE Sl \o Sl) \o sepjoin(comps)

\* os.path.normpath(path)
normpath(path) ==
    IF path = Empty THEN Dot
    ELSE normjoin(initial_slashes_of(path), collapse(split(path), <<>>, initial_slashes_of(path)))

\* os.path.abspath(path): relative paths are joined to os.getcwd()
abspath(path) == normpath(IF isabs(path) THEN path ELSE join(cwd, path))

\* os.path.dirname(p)
dirname(p) ==
    LET head == SubSeq(p, 1, rfindsep(p))
    IN  IF head # Empty /\ \E i \in 1..Len(head) : head[i] # "/" THEN rstripsep(head) ELSE head

\* os.path.basename(p)
basename(p) == SubSeq(p, rfindsep(p) + 1, Len(p))

\* the home directory, os.path.expanduser("~")
Home == <<"/", "h">>

expanduser_home == Home

normalize_path(p) == normpath(p)

\* filepath[1:] is "/rest" for "~/rest": os.path.join then drops the home directory
expand_home(filepath) ==
    IF startswith(filepath, Tilde \o Sl) \/ filepath = Tilde
        THEN join(expanduser_home, IF filepath # Tilde THEN strfrom(filepath, 1) ELSE Empty)
    ELSE filepath

-----------------------------------------------------------------------------
(* The file system: a node path is the tuple of names from "/"; a node is  *)
(* a directory, a regular file or a symbolic link.  acc = FALSE is a node  *)
(* of mode 000: such a directory cannot be listed, entered or written to,  *)
(* such a file cannot be opened.                                           *)

DirNode == [kind |-> "dir", acc |-> TRUE, content |-> Empty, target |-> Empty]
LockedDirNode == [kind |-> "dir", acc |-> FALSE, content |-> Empty, target |-> Empty]
FileNode(content) == [kind |-> "file", acc |-> TRUE, content |-> content, target |-> Empty]
LockedFileNode(content) == [kind |-> "file", acc |-> FALSE, content |-> content, target |-> Empty]
LinkNode(target) == [kind |-> "link", acc |-> TRUE, content |-> Empty, target |-> target]

Front(q) == SubSeq(q, 1, Len(q) - 1)

\* the str of a node path
tostr(q) == Sl \o sepjoin(q)

IsPrefixOf(q, r) == Len(q) <= Len(r) /\ SubSeq(r, 1, Len(q)) = q

\* the kind of the node at q, "none" when there is no node
KindAt(f, q) == IF q \in DOMAIN f THEN f[q].kind ELSE "none"

RECURSIVE joinrealpath(_, _, _)
\* posixpath._joinrealpath, strict=False: a symbolic link is replaced by its
\* (absolute) target; a component that cannot be lstat-ed is kept as it is
joinrealpath(f, path, rest) ==
    IF rest = <<>> THEN path
    ELSE IF Head(rest) = Empty \/ Head(rest) = Dot THEN joinrealpath(f, path, Tail(rest))
    ELSE IF Head(rest) = DotDot THEN joinrealpath(f, IF path = <<>> THEN path ELSE Front(path), Tail(rest))
    ELSE IF KindAt(f, Append(path, Head(rest))) = "link"
        THEN joinrealpath(f, joinrealpath(f, <<>>, split(f[Append(path, Head(rest))].target)), Tail(rest))
    ELSE joinrealpath(f, Append(path, Head(rest)), Tail(rest))

\* os.path.realpath(filename): never raises for a missing path (strict=False)
realpath(f, filename) == tostr(joinrealpath(f, <<>>, split(abspath(filename))))

\* the node path the kernel reaches for a path name, following every link
resolve(f, s) == joinrealpath(f, <<>>, split(IF isabs(s) THEN s ELSE join(cwd, s)))

exists(f, s) == resolve(f, s) \in DOMAIN f

isdir(f, s) == KindAt(f, resolve(f, s)) = "dir"

isfile(f, s) == KindAt(f, resolve(f, s)) = "file"

Children(f, q) == {r \in DOMAIN f : Len(r) = Len(q) + 1 /\ Front(r) = q}

\* outcome of a call that may raise: the exception class ("none": it returned),
\* the file system it leaves, and its value
Ok(f, val) == [exc |-> "none", fs |-> f, val |-> val]
Raise(exc, f) == [exc |-> exc, fs |-> f, val |-> Empty]

\* why the kernel cannot reach a missing directory q
LookupError(f, q) ==
    IF \E i \in 0..Len(q) : KindAt(f, SubSeq(q, 1, i)) = "file" THEN "NotADirectoryError"
    ELSE IF \E i \in 0..Len(q) : SubSeq(q, 1, i) \in DOMAIN f /\ ~f[SubSeq(q, 1, i)].acc THEN "PermissionError"
    ELSE "FileNotFoundError"

\* mkdir of the entry name in the directory node par
mkdir_at(f, par, name) ==
    IF KindAt(f, par) # "dir" THEN Raise(LookupError(f, par), f)
    ELSE IF Append(par, name) \in DOMAIN f THEN Raise("FileExistsError", f)
    ELSE IF ~f[par].acc THEN Raise("PermissionError", f)
    ELSE Ok((Append(par, name) :> DirNode) @@ f, Empty)

\* os.mkdir(s)
mkdir(f, s) == mkdir_at(f, resolve(f, dirname(s)), basename(s))

\* the end of os.makedirs: mkdir raised m.exc; with exist_ok an existing
\* directory is accepted
makedirs_leaf(f, name, m) == IF m.exc # "none" /\ isdir(f, name) THEN Ok(f, Empty) ELSE m

\* os.makedirs after the parents were made (up): a FileExistsError from them is passed over
makedirs_in(name, up) ==
    IF up.exc \notin {"none", "FileExistsError"} THEN up
    ELSE makedirs_leaf(up.fs, name, mkdir(up.fs, name))

\* os.mkdir in the place of os.makedirs: only the last directory is made
makedirs_last_only(f, name) == makedirs_leaf(f, name, mkdir(f, name))

RECURSIVE makedirs(_, _)
\* os.makedirs(name, exist_ok=True); directories made before a failure stay
makedirs(f, name) ==
    makedirs_in(name, IF dirname(name) # Empty /\ basename(name) # Empty /\ ~exists(f, dirname(name))
                          THEN makedirs(f, dirname(name))
                      ELSE Ok(f, Empty))

\* writing content to the node path q the name resolves to
write_at(f, q, content) ==
    IF q \in DOMAIN f
        THEN IF f[q].kind = "dir" THEN Raise("IsADirectoryError", f)
             ELSE IF ~f[q].acc THEN Raise("PermissionError", f)
             ELSE Ok([f EXCEPT ![q] = FileNode(content)], Empty)
    ELSE IF q = <<>> \/ KindAt(f, Front(q)) # "dir" THEN Raise(LookupError(f, Front(q)), f)
    ELSE IF ~f[Front(q)].acc THEN Raise("PermissionError", f)
    ELSE Ok((q :> FileNode(content)) @@ f, Empty)

\* open(s, 'w', encoding='utf-8') followed by f.write(content)
open_write(f, s, content) == write_at(f, resolve(f, s), content)

\* bytes that are not UTF-8 text
Binary == <<"\\xff">>

read_at(f, q) ==
    IF q \notin DOMAIN f THEN Raise(LookupError(f, q), f)
    ELSE IF f[q].kind = "dir" THEN Raise("IsADirectoryError", f)
    ELSE IF ~f[q].acc THEN Raise("PermissionError", f)
    ELSE IF f[q].content = Binary THEN Raise("UnicodeDecodeError", f)
    ELSE Ok(f, f[q].content)

\* open(s, 'r', encoding='utf-8') followed by f.read()
open_read(f, s) == read_at(f, resolve(f, s))

list_at(f, q) ==
    IF q \notin DOMAIN f THEN Raise(LookupError(f, q), f)
    ELSE IF f[q].kind # "dir" THEN Raise("NotADirectoryError", f)
    ELSE IF ~f[q].acc THEN Raise("PermissionError", f)
    ELSE Ok(f, {r[Len(r)] : r \in Children(f, q)})

\* os.listdir(s): the names in the directory
listdir(f, s) == list_at(f, resolve(f, s))

size_at(f, q) == IF q \notin DOMAIN f THEN Raise(LookupError(f, q), f) ELSE Ok(f, Len(f[q].content))

\* os.path.getsize(s)
getsize(f, s) == size_at(f, resolve(f, s))

chdir_at(f, q) ==
    IF q \notin DOMAIN f THEN Raise(LookupError(f, q), f)
    ELSE IF f[q].kind # "dir" THEN Raise("NotADirectoryError", f)
    ELSE IF ~f[q].acc THEN Raise("PermissionError", f)
    ELSE Ok(f, tostr(q))

\* os.chdir(s); its value is what os.getcwd() gives afterwards
chdir(f, s) == chdir_at(f, resolve(f, s))

-----------------------------------------------------------------------------
(* validate_path                                                           *)

\* os.path.realpath as validate_path calls it: with strict=False the call
\* returns for every path, so the FileNotFoundError handlers never run
realpath_call(f, p) == Ok(f, realpath(f, p))

\* a validate_path outcome: the path it returns, or the ValueError it raises;
\* probed: the paths it handed to the file system (os.path.realpath)
Denied(reason, probed) == [exc |-> "ValueError", reason |-> reason, val |-> Empty, probed |-> probed]
Admitted(val, probed) == [exc |-> "none", reason |-> "none", val |-> val, probed |-> probed]

\* the handler of FileNotFoundError: pp is os.path.realpath(parent_dir)
validate_parent(absolute_path, normalized_working_dir, parent_dir, pp) ==
    IF pp.exc = "FileNotFoundError" THEN Denied("ParentNotFound", {absolute_path, parent_dir})
    ELSE IF ~startswith(normalize_path(pp.val), normalized_working_dir) THEN Denied("ParentOutsideRoot", {absolute_path, parent_dir})
    ELSE Admitted(absolute_path, {absolute_path, parent_dir})

\* the try block: rp is os.path.realpath(absolute_path)
validate_real(absolute_path, normalized_working_dir, rp) ==
    IF rp.exc = "FileNotFoundError"
        THEN validate_parent(absolute_path, normalized_working_dir, dirname(absolute_path), realpath_call(fs, dirname(absolute_path)))
    ELSE IF ~startswith(normalize_path(rp.val), normalized_working_dir) THEN Denied("SymlinkEscapesRoot", {absolute_path})
    ELSE Admitted(rp.val, {absolute_path})

\* the test that the path is in the working directory: str.startswith
validate_prefix(absolute_path, normalized_working_dir) ==
    IF ~startswith(normalize_path(absolute_path), normalized_working_dir) THEN Denied("OutsideRoot", {})
    ELSE validate_real(absolute_path, normalized_working_dir, realpath_call(fs, absolute_path))

validate_path(path_to_check, working_dir) ==
    IF falsy(working_dir) THEN Denied("NoRootsConfigured", {})
    ELSE validate_prefix(abspath(expand_home(path_to_check)), normalize_path(working_dir))

\* the record of a validate_path call
NoGate == [called |-> FALSE, path |-> Empty, root |-> Empty, out |-> Denied("none", {})]
GateOf(path, root) == [called |-> TRUE, path |-> path, root |-> root, out |-> validate_path(path, root)]

-----------------------------------------------------------------------------
(* The tools.  A tool's body yields: the exception it raises ("none" when  *)
(* it returns), the kind of message it returns, the message's payload, and *)
(* the state it leaves.                                                    *)

Base == [exc |-> "none", caught |-> "none", kind |-> "ok", text |-> Empty, entries |-> {}, fs |-> fs, wd |-> working_directory, cwd |-> cwd, gate |-> NoGate, touched |-> {}]

NoWorkingDirectory == [Base EXCEPT !.kind = "no_working_directory"]

\* an except clause: the exception becomes the returned message
Except(body, kind) == [body EXCEPT !.exc = "none", !.caught = body.exc, !.kind = kind]

\* the body of a tool whose validate_path call raised
GateRaised(g) == [Base EXCEPT !.exc = g.out.exc, !.gate = g, !.text = g.path]

\* nodes of g that f lacks or holds with another value
Changed(f, g) == {q \in DOMAIN g : q \notin DOMAIN f \/ f[q] # g[q]}

\* set_working_directory storing the directory os.chdir arrived at (os.getcwd())
\* in place of the normalized path
set_working_directory_store_resolved(f, normalized_path, cd) ==
    IF cd.exc # "none" THEN [Base EXCEPT !.exc = cd.exc, !.fs = f, !.wd = normalized_path]
    ELSE [Base EXCEPT !.fs = f, !.wd = cd.val, !.cwd = cd.val, !.text = normalized_path]

\* server_ctx.working_directory = normalized_path, then os.chdir(normalized_path) (cd)
set_working_directory_store(f, normalized_path, cd) ==
    IF cd.exc # "none" THEN [Base EXCEPT !.exc = cd.exc, !.fs = f, !.wd = normalized_path]
    ELSE [Base EXCEPT !.fs = f, !.wd = normalized_path, !.cwd = cd.val, !.text = normalized_path]

\* the directory did not exist: os.makedirs(normalized_path, exist_ok=True) (mk)
set_working_directory_made(normalized_path, mk) ==
    IF mk.exc # "none" THEN [Base EXCEPT !.kind = "create_error", !.caught = mk.exc, !.fs = mk.fs, !.text = normalized_path]
    ELSE set_working_directory_store(mk.fs, normalized_path, chdir(mk.fs, normalized_path))

\* set_working_directory without the test that an existing target is a directory
set_working_directory_checked_any(normalized_path) ==
    IF ~exists(fs, normalized_path) THEN set_working_directory_made(normalized_path, makedirs(fs, normalized_path))
    ELSE set_working_directory_store(fs, normalized_path, chdir(fs, normalized_path))

set_working_directory_checked(normalized_path) ==
    IF ~exists(fs, normalized_path) THEN set_working_directory_made(normalized_path, makedirs(fs, normalized_path))
    ELSE IF ~isdir(fs, normalized_path) THEN [Base EXCEPT !.kind = "not_a_directory", !.text = normalized_path]
    ELSE set_working_directory_store(fs, normalized_path, chdir(fs, normalized_path))

set_working_directory_body(directory_path) == set_working_directory_checked(normalize_path(abspath(expand_home(directory_path))))

\* try: ... except Exception
set_working_directory_handlers(body) == IF body.exc # "none" THEN Except(body, "error") ELSE body

set_working_directory(directory_path) == set_working_directory_handlers(set_working_directory_body(directory_path))

get_working_directory ==
    IF ~falsy(working_directory) THEN [Base EXCEPT !.kind = "working_directory", !.text = working_directory]
    ELSE NoWorkingDirectory

\* the characters of the names in use, in code point order
Alphabet == <<"2", "A", "S", "a", "b", "d", "e", "f", "g", "h", "i", "j", "k", "l", "m", "n", "p", "q", "r", "s", "w">>

ord(c) == CHOOSE i \in 1..Len(Alphabet) : Alphabet[i] = c

RECURSIVE strless(_, _)
\* x < y for two str
strless(x, y) ==
    IF y = Empty THEN FALSE
    ELSE IF x = Empty THEN TRUE
    ELSE IF Head(x) = Head(y) THEN strless(Tail(x), Tail(y))
    ELSE ord(Head(x)) < ord(Head(y))

\* min(S) for a collection of distinct str
least(S) == CHOOSE x \in S : \A y \in S : x = y \/ strless(x, y)

RECURSIVE sorted(_)
\* sorted(S) for a collection of distinct str
sorted(S) == IF S = {} THEN <<>> ELSE <<least(S)>> \o sorted(S \ {least(S)})

\* str.lower()
lower(s) == [i \in 1..Len(s) |-> IF s[i] = "A" THEN "a" ELSE IF s[i] = "S" THEN "s" ELSE s[i]]

\* sub in s
contains(s, sub) == \E i \in 0..(Len(s) - Len(sub)) : SubSeq(s, i + 1, i + Len(sub)) = sub

\* one entry of the listing is added; the node the entry leads to was accessed
Listed(acc, q, entry) == [acc EXCEPT !.touched = @ \cup ({q} \cap DOMAIN fs), !.entries = @ \cup {entry}]

\* an entry raised exc, which the loop does not handle
ListRaised(acc, q, exc) == [acc EXCEPT !.exc = exc, !.touched = @ \cup ({q} \cap DOMAIN fs)]

RECURSIVE list_items(_, _, _)

\* one entry of a directory listing: a directory is counted (ls is
\* os.listdir(item_path)), anything else is sized (sz is os.path.getsize(item_path));
\* only a PermissionError is handled
list_item(valid_path, items, acc, q, ls, sz) ==
    IF KindAt(fs, q) = "dir"
        THEN IF ls.exc = "PermissionError" THEN list_items(valid_path, Tail(items), Listed(acc, q, <<Head(items), "dir", -1>>))
             ELSE IF ls.exc # "none" THEN ListRaised(acc, q, ls.exc)
             ELSE list_items(valid_path, Tail(items), Listed(acc, q, <<Head(items), "dir", Cardinality(ls.val)>>))
    ELSE IF sz.exc = "PermissionError" THEN list_items(valid_path, Tail(items), Listed(acc, q, <<Head(items), "file", -1>>))
    ELSE IF sz.exc # "none" THEN ListRaised(acc, q, sz.exc)
    ELSE list_items(valid_path, Tail(items), Listed(acc, q, <<Head(items), "file", sz.val>>))

\* the loop of list_dir over sorted(os.listdir(valid_path)); q is the node
\* item_path = os.path.join(valid_path, item) leads to
list_items(valid_path, items, acc) ==
    IF items = <<>> THEN acc
    ELSE \* os.path.isdir, os.listdir and os.path.getsize all follow item_path
         LET q == resolve(fs, join(valid_path, Head(items)))
         IN  list_item(valid_path, items, acc, q, list_at(fs, q), size_at(fs, q))

\* the end of list_dir
list_dir_done(valid_path, done) ==
    IF done.exc = "none" /\ done.entries = {} THEN [done EXCEPT !.kind = "empty", !.text = valid_path] ELSE done

\* ls is os.listdir(valid_path)
list_dir_listed(g, valid_path, q, ls) ==
    IF ls.exc # "none" THEN [Base EXCEPT !.exc = ls.exc, !.gate = g, !.touched = {q}]
    ELSE list_dir_done(valid_path, list_items(valid_path, sorted(ls.val), [Base EXCEPT !.kind = "listing", !.gate = g, !.touched = {q}]))

\* q is the node valid_path leads to
list_dir_at(g, valid_path, q) ==
    IF KindAt(fs, q) # "dir" THEN [Base EXCEPT !.kind = "not_found", !.gate = g, !.text = valid_path, !.touched = {q} \cap DOMAIN fs]
    ELSE list_dir_listed(g, valid_path, q, list_at(fs, q))

list_dir_gated(g) == IF g.out.exc # "none" THEN GateRaised(g) ELSE list_dir_at(g, g.out.val, resolve(fs, g.out.val))

\* list_dir without the test of the working directory before validate_path
list_dir_body_unchecked(subdirectory) ==
    list_dir_gated(GateOf(IF subdirectory # Empty THEN join(working_directory, subdirectory) ELSE working_directory, working_directory))

list_dir_body(subdirectory) ==
    IF falsy(working_directory) THEN NoWorkingDirectory
    ELSE list_dir_gated(GateOf(IF subdirectory # Empty THEN join(working_directory, subdirectory) ELSE working_directory, working_directory))

\* except ValueError / except Exception
\* the handlers of a tool without the closing "except Exception"
tool_handlers_value_error_only(body) == IF body.exc = "ValueError" THEN Except(body, "value_error") ELSE body

tool_handlers(body) ==
    IF body.exc = "ValueError" THEN Except(body, "value_error")
    ELSE IF body.exc # "none" THEN Except(body, "error")
    ELSE body

list_dir(subdirectory) == tool_handlers(list_dir_body(subdirectory))

\* rd is the open(valid_path, 'r') and f.read()
read_file_read(g, valid_path, q, rd) ==
    IF rd.exc # "none" THEN [Base EXCEPT !.exc = rd.exc, !.gate = g, !.text = valid_path, !.touched = {q}]
    ELSE [Base EXCEPT !.kind = "content", !.gate = g, !.text = rd.val, !.touched = {q}]

\* q is the node valid_path leads to
read_file_at(g, valid_path, q) ==
    IF q \notin DOMAIN fs THEN [Base EXCEPT !.kind = "not_exists", !.gate = g, !.text = valid_path]
    ELSE IF fs[q].kind # "file" THEN [Base EXCEPT !.kind = "not_a_file", !.gate = g, !.text = valid_path, !.touched = {q}]
    ELSE read_file_read(g, valid_path, q, read_at(fs, q))

read_file_gated(g) == IF g.out.exc # "none" THEN GateRaised(g) ELSE read_file_at(g, g.out.val, resolve(fs, g.out.val))

read_file_body(file_path) ==
    IF falsy(working_directory) THEN NoWorkingDirectory
    ELSE read_file_gated(GateOf(IF ~isabs(file_path) THEN join(working_directory, file_path) ELSE file_path, working_directory))

\* except ValueError / except UnicodeDecodeError / except Exception
read_file_handlers(body) ==
    IF body.exc = "ValueError" THEN Except(body, "value_error")
    ELSE IF body.exc = "UnicodeDecodeError" THEN Except(body, "decode_error")
    ELSE IF body.exc # "none" THEN Except(body, "error")
    ELSE body

read_file(file_path) == read_file_handlers(read_file_body(file_path))

\* wr is the open(valid_path, 'w') and f.write(content), after the parents were made (mk)
write_file_written(g, file_path, valid_path, mk, wr) ==
    IF wr.exc # "none" THEN [Base EXCEPT !.exc = wr.exc, !.gate = g, !.fs = mk.fs, !.touched = Changed(fs, mk.fs)]
    ELSE [Base EXCEPT !.kind = "saved", !.gate = g, !.fs = wr.fs, !.text = file_path, !.touched = Changed(fs, wr.fs) \cup {resolve(wr.fs, valid_path)}]

\* mk is the os.makedirs(parent_dir, exist_ok=True), when it was called
write_file_made(g, file_path, valid_path, content, mk) ==
    IF mk.exc # "none" THEN [Base EXCEPT !.exc = mk.exc, !.gate = g, !.fs = mk.fs, !.touched = Changed(fs, mk.fs)]
    ELSE write_file_written(g, file_path, valid_path, mk, open_write(mk.fs, valid_path, content))

write_file_at(g, file_path, valid_path, content, parent_dir) ==
    write_file_made(g, file_path, valid_path, content, IF parent_dir # Empty /\ ~exists(fs, parent_dir) THEN makedirs(fs, parent_dir) ELSE Ok(fs, Empty))

write_file_gated(g, file_path, content) ==
    IF g.out.exc # "none" THEN GateRaised(g) ELSE write_file_at(g, file_path, g.out.val, content, dirname(g.out.val))

\* write_file without the test of the working directory before validate_path
write_file_body_unchecked(file_path, content) ==
    write_file_gated(GateOf(IF ~isabs(file_path) THEN join(working_directory, file_path) ELSE file_path, working_directory), file_path, content)

write_file_body(file_path, content) ==
    IF falsy(working_directory) THEN NoWorkingDirectory
    ELSE write_file_gated(GateOf(IF ~isabs(file_path) THEN join(working_directory, file_path) ELSE file_path, working_directory), file_path, content)

write_file(file_path, content) == tool_handlers(write_file_body(file_path, content))

\* mk is the os.makedirs(valid_path, exist_ok=True)
create_directory_made(g, directory_path, valid_path, mk) ==
    IF mk.exc # "none" THEN [Base EXCEPT !.exc = mk.exc, !.gate = g, !.fs = mk.fs, !.touched = Changed(fs, mk.fs)]
    ELSE [Base EXCEPT !.kind = "created", !.gate = g, !.fs = mk.fs, !.text = directory_path, !.touched = Changed(fs, mk.fs) \cup {resolve(mk.fs, valid_path)}]

create_directory_gated(g, directory_path) ==
    IF g.out.exc # "none" THEN GateRaised(g) ELSE create_directory_made(g, directory_path, g.out.val, makedirs(fs, g.out.val))

create_directory_body(directory_path) ==
    IF falsy(working_directory) THEN NoWorkingDirectory
    ELSE create_directory_gated(GateOf(IF ~isabs(directory_path) THEN join(working_directory, directory_path) ELSE directory_path, working_directory), directory_path)

create_directory(directory_path) == tool_handlers(create_directory_body(directory_path))

\* the names of a path, as os.path.relpath takes them: [x for x in abspath(p).split("/") if x]
parts(p) == SelectSeq(split(abspath(p)), LAMBDA x : x # Empty)

RECURSIVE commonlen(_, _)
commonlen(x, y) == IF x = <<>> \/ y = <<>> \/ Head(x) # Head(y) THEN 0 ELSE 1 + commonlen(Tail(x), Tail(y))

\* os.path.relpath of the name lists
relparts(path_list, start_list, i) ==
    IF Len(start_list) = i /\ Len(path_list) = i THEN Dot
    ELSE sepjoin([j \in 1..(Len(start_list) - i) |-> DotDot] \o SubSeq(path_list, i + 1, Len(path_list)))

\* os.path.relpath(tostr(q), start), with start_list = parts(start)
relpath(q, start_list) == relparts(q, start_list, commonlen(start_list, q))

\* the entries os.walk(top) yields (followlinks=False, errors ignored): what lies
\* under top through directories that can be scanned; a link is not entered
walk(f, t) ==
    {r \in DOMAIN f : /\ Len(r) > Len(t)
                      /\ IsPrefixOf(t, r)
                      /\ \A i \in Len(t)..(Len(r) - 1) : /\ KindAt(f, SubSeq(r, 1, i)) = "dir"
                                                         /\ f[SubSeq(r, 1, i)].acc}

\* found is what os.walk(valid_path) yields; every entry is stat-ed through its
\* links (is_dir), and named in the result when its name holds the pattern
search_files_found(g, pattern, t, found, start_list) ==
    LET results == {<<relpath(r, start_list), IF KindAt(fs, joinrealpath(fs, <<>>, r)) = "dir" THEN "dir" ELSE "file">> : r \in {x \in found : contains(lower(x[Len(x)]), lower(pattern))}}
        seen == (({t} \cup {joinrealpath(fs, <<>>, r) : r \in found}) \cap DOMAIN fs) \cup found
    IN  IF results = {} THEN [Base EXCEPT !.kind = "no_matches", !.gate = g, !.text = pattern, !.touched = seen]
        ELSE [Base EXCEPT !.kind = "matches", !.gate = g, !.entries = results, !.touched = seen]

\* t is the node valid_path leads to
search_files_at(g, pattern, t) == search_files_found(g, pattern, t, walk(fs, t), parts(working_directory))

search_files_gated(g, pattern) == IF g.out.exc # "none" THEN GateRaised(g) ELSE search_files_at(g, pattern, resolve(fs, g.out.val))

search_files_body(pattern, subdirectory) ==
    IF falsy(working_directory) THEN NoWorkingDirectory
    ELSE search_files_gated(GateOf(IF subdirectory # Empty THEN join(working_directory, subdirectory) ELSE working_directory, working_directory), pattern)

search_files(pattern, subdirectory) == tool_handlers(search_files_body(pattern, subdirectory))

-----------------------------------------------------------------------------
(* The machine the tools run on, and the calls made                        *)

\* how many calls of one run may change the file system
MaxMutations == 1

\* the str of a list of names: "/" + "/".join(names)
P(names) == tostr(names)

\* a relative path: "/".join(names)
Rel(names) == sepjoin(names)

a == <<"a">>
b == <<"b">>
d == <<"d">>
e == <<"e">>
f0 == <<"f">>
g0 == <<"g">>
h == <<"h">>
i0 == <<"i">>
j0 == <<"j">>
k == <<"k">>
l == <<"l">>
m == <<"m">>
n == <<"n">>
p0 == <<"p">>
q0 == <<"q">>
r0 == <<"r">>
s0 == <<"s">>
w == <<"w">>
w2 == <<"w", "2">>

\* where the link /w/l leads: a sibling of /w that has "/w" as a character
\* prefix, or a directory elsewhere
LinkTargets == {P(<<w2>>), P(<<e>>)}

InitialFs(target) ==
    (<<>> :> DirNode)
    @@ (<<w>> :> DirNode)
    @@ (<<w, a>> :> FileNode(<<"y">>))
    @@ (<<w, b>> :> FileNode(Binary))
    @@ (<<w, d>> :> DirNode)
    @@ (<<w, d, a>> :> FileNode(<<"y", "y">>))
    @@ (<<w, d, g0>> :> LinkNode(P(<<e, n>>)))
    @@ (<<w, d, i0>> :> LinkNode(P(<<w, n>>)))
    @@ (<<w, j0>> :> LinkNode(P(<<w, d>>)))
    @@ (<<w, l>> :> LinkNode(target))
    @@ (<<w, p0>> :> LockedDirNode)
    @@ (<<w, q0>> :> LockedFileNode(<<"y">>))
    @@ (<<w2>> :> DirNode)
    @@ (<<w2, s0>> :> FileNode(<<"s">>))
    @@ (<<e>> :> DirNode)
    @@ (<<e, s0>> :> FileNode(<<"s">>))
    @@ (<<h>> :> DirNode)
    @@ (<<k>> :> LinkNode(P(<<w>>)))

\* arguments of set_working_directory
RootInputs == {Rel(<<d>>), P(<<w>>), P(<<k>>), Tilde, Tilde \o P(<<r0>>), P(<<w, a>>), P(<<w, p0>>), P(<<w, p0, n>>)}

\* arguments of read_file
ReadInputs ==
    { Rel(<<a>>), P(<<w, a>>), P(<<w, d, DotDot, a>>), P(<<w2, s0>>), P(<<e, s0>>), P(<<k, a>>),
      P(<<w, l>>), P(<<w, l, s0>>), P(<<w, l, n>>), P(<<w, j0, a>>), P(<<w, n>>), P(<<w, n, m, f0>>),
      P(<<w, d>>), P(<<w, d, g0>>), P(<<w, d, i0>>), P(<<w, b>>), P(<<w, q0>>), Tilde }

\* arguments of validate_path called on its own
ValidateInputs == {Rel(<<a>>), P(<<w, a>>), P(<<w2, s0>>), Tilde, Tilde \o P(<<r0>>)}

\* arguments of list_dir
ListInputs == {Empty, Rel(<<d>>), P(<<w, l>>), P(<<w, p0>>), P(<<w, a>>), P(<<w, n>>), P(<<w2>>), P(<<e>>)}

\* arguments of search_files
SearchInputs == {Empty, Rel(<<d>>), Rel(<<l>>)}

Patterns == {Empty, <<"A">>}

\* arguments of write_file: the path and the content
WriteInputs ==
    { <<Rel(<<a>>), <<"x">>>>, <<Rel(<<a>>), Empty>>, <<P(<<w, f0>>), <<"x">>>>, <<P(<<w, n, m, f0>>), <<"x">>>>,
      <<P(<<w, l, f0>>), <<"x">>>>, <<P(<<w, j0, f0>>), <<"x">>>>, <<P(<<w2, f0>>), <<"x">>>>,
      <<P(<<w, p0, n, f0>>), <<"x">>>>, <<P(<<w, a, n, f0>>), <<"x">>>>, <<P(<<w, q0>>), <<"x">>>>,
      <<P(<<w, d>>), <<"x">>>>, <<P(<<w, d, g0>>), <<"x">>>>, <<P(<<e, f0>>), <<"x">>>> }

\* arguments of create_directory
DirInputs == {Rel(<<n>>), P(<<w, d>>), P(<<w, n, m>>), P(<<w, l, n>>), P(<<w, p0, n>>), P(<<w, a, n>>), P(<<w2, n>>), P(<<e, n>>)}

\* no register call is waiting
NoWait == [id |-> 0, waited |-> 0, call |-> <<>>]

\* no file tool is part-way through its body
NoFile == [op |-> "none", arg |-> Empty, content |-> Empty, pc |-> "idle", roots |-> <<>>, path |-> Empty, g |-> NoGate]

\* no set_working_directory is part-way through its body
NoSet == [pc |-> "idle", arg |-> Empty, normalized_path |-> Empty]

NoCall == [op |-> "none", arg |-> Empty, content |-> Empty, outcome |-> "return", caught |-> "none", kind |-> "ok", text |-> Empty, entries |-> {}]

Init ==
    /\ working_directory = None
    /\ cwd = Sl
    /\ fs \in {InitialFs(t) : t \in LinkTargets}
    /\ result = NoCall
    /\ gate = NoGate
    /\ touched = {}
    /\ prev = [wd |-> None, cwd |-> Sl, fs |-> fs]
    /\ mutations = 0
    /\ wd_set_by = "none"
    /\ allowed_roots = <<>>
    /\ command_registry = <<>>
    /\ waiting = NoWait
    /\ inflight = [file |-> NoFile, set |-> NoSet]
    /\ last_call = [op |-> "none", arg |-> Empty]

\* the server takes one call at a time
Idle == result = NoCall

\* a call of op with arg (and content) that ends as out
Answer(op, arg, content, out) ==
    /\ out.fs # fs => mutations < MaxMutations
    /\ working_directory' = out.wd
    /\ cwd' = out.cwd
    /\ fs' = out.fs
    /\ result' = [op |-> op, arg |-> arg, content |-> content, outcome |-> IF out.exc = "none" THEN "return" ELSE "raise", caught |-> out.caught, kind |-> out.kind, text |-> out.text, entries |-> out.entries]
    /\ gate' = out.gate
    /\ touched' = out.touched
    /\ prev' = [wd |-> working_directory, cwd |-> cwd, fs |-> fs]
    /\ mutations' = IF out.fs # fs THEN mutations + 1 ELSE mutations
    /\ wd_set_by' = IF out.wd # working_directory THEN op ELSE wd_set_by

\* a call of a tool of server.py: the roots list and the commands are not its concern
Call(op, arg, content, out) == Answer(op, arg, content, out) /\ UNCHANGED <<allowed_roots, command_registry, waiting, inflight, last_call>>

SetWorkingDirectory == Idle /\ \E x \in RootInputs : \E out \in {set_working_directory(x)} : Call("set_working_directory", x, Empty, out)

GetWorkingDirectory == Idle /\ \E out \in {get_working_directory} : Call("get_working_directory", Empty, Empty, out)

ListDir == Idle /\ \E x \in ListInputs : \E out \in {list_dir(x)} : Call("list_dir", x, Empty, out)

ReadFile == Idle /\ \E x \in ReadInputs : \E out \in {read_file(x)} : Call("read_file", x, Empty, out)

WriteFile == Idle /\ \E x \in WriteInputs : \E out \in {write_file(x[1], x[2])} : Call("write_file", x[1], x[2], out)

CreateDirectory == Idle /\ \E x \in DirInputs : \E out \in {create_directory(x)} : Call("create_directory", x, Empty, out)

SearchFiles == Idle /\ \E x \in Patterns, y \in SearchInputs : \E out \in {search_files(x, y)} : Call("search_files", y, x, out)

\* validate_path called on its own, as a caller of the module may: it raises
ValidatePath == Idle /\ \E x \in ValidateInputs : \E g \in {GateOf(x, working_directory)} : Call("validate_path", x, Empty, [Base EXCEPT !.gate = g, !.exc = g.out.exc, !.text = g.out.val])

\* the answer is handed to the caller; the server is ready for the next call
Responded ==
    /\ result # NoCall
    /\ result' = NoCall
    /\ gate' = NoGate
    /\ touched' = {}
    /\ prev' = [wd |-> working_directory, cwd |-> cwd, fs |-> fs]
    /\ UNCHANGED <<working_directory, cwd, fs, mutations, wd_set_by, allowed_roots, command_registry, waiting, inflight>>

Respond == Responded /\ UNCHANGED last_call

Next ==
    \/ SetWorkingDirectory
    \/ GetWorkingDirectory
    \/ ListDir
    \/ ReadFile
    \/ WriteFile
    \/ CreateDirectory
    \/ SearchFiles
    \/ ValidatePath
    \/ Respond

Spec == Init /\ [][Next]_vars

-----------------------------------------------------------------------------
(* The allowed roots (spec.md 4.3): addAllowedRoot, removeAllowedRoot and  *)
(* listRoots beside the single working root of set_working_directory      *)

\* the names of a normalized absolute path
segments(s) == SelectSeq(split(s), LAMBDA x : x # Empty)

\* root is p or an ancestor of p, matched at a boundary between names
root_contains(root, p) == IsPrefixOf(segments(root), segments(p))

in_roots(roots, p) == \E i \in 1..Len(roots) : roots[i] = p

\* the entries that overlap p: one contains the other
overlapping(roots, p) == {roots[i] : i \in {j \in 1..Len(roots) : root_contains(roots[j], p) \/ root_contains(p, roots[j])}}

\* addAllowedRoot of the normalized path: the target must exist as a directory
add_allowed_root_at(normalized_path) ==
    IF ~exists(fs, normalized_path) THEN [out |-> [Base EXCEPT !.kind = "not_found", !.text = normalized_path], roots |-> allowed_roots]
    ELSE IF ~isdir(fs, normalized_path) THEN [out |-> [Base EXCEPT !.kind = "not_a_directory", !.text = normalized_path], roots |-> allowed_roots]
    ELSE IF in_roots(allowed_roots, normalized_path) THEN [out |-> [Base EXCEPT !.kind = "already_allowed", !.text = normalized_path], roots |-> allowed_roots]
    ELSE [out |-> [Base EXCEPT !.kind = "added", !.text = normalized_path], roots |-> Append(allowed_roots, normalized_path)]

add_allowed_root(path) == add_allowed_root_at(normalize_path(abspath(expand_home(path))))

\* removeAllowedRoot of the normalized path: a notice with the overlapping
\* entries when it is not present; a working directory inside it is unset
remove_allowed_root_at(normalized_path) ==
    IF ~in_roots(allowed_roots, normalized_path)
        THEN [out |-> [Base EXCEPT !.kind = "not_present", !.text = normalized_path, !.entries = overlapping(allowed_roots, normalized_path)], roots |-> allowed_roots]
    ELSE [out |-> [Base EXCEPT !.kind = "removed", !.text = normalized_path,
                               !.wd = IF ~falsy(working_directory) /\ root_contains(normalized_path, working_directory) THEN None ELSE working_directory],
          roots |-> SelectSeq(allowed_roots, LAMBDA x : x # normalized_path)]

remove_allowed_root(path) == remove_allowed_root_at(normalize_path(abspath(expand_home(path))))

\* listRoots: a snapshot
list_allowed_roots == [out |-> [Base EXCEPT !.kind = "roots", !.entries = {allowed_roots[i] : i \in 1..Len(allowed_roots)}], roots |-> allowed_roots]

\* arguments of addAllowedRoot
AddInputs == {P(<<w>>), Sl, P(<<w, d>>), P(<<w, a>>), P(<<e, n>>)}

\* arguments of removeAllowedRoot
RemoveInputs == {P(<<w>>), Sl, P(<<w, d>>), P(<<e>>)}

\* a call that leaves the roots list as r.roots
RootsCall(op, arg, r) == Answer(op, arg, Empty, r.out) /\ allowed_roots' = r.roots /\ UNCHANGED <<command_registry, waiting, inflight, last_call>>

AddAllowedRoot == Idle /\ \E x \in AddInputs : \E r \in {add_allowed_root(x)} : RootsCall("add_allowed_root", x, r)

RemoveAllowedRoot == Idle /\ \E x \in RemoveInputs : \E r \in {remove_allowed_root(x)} : RootsCall("remove_allowed_root", x, r)

ListAllowedRoots == Idle /\ \E r \in {list_allowed_roots} : RootsCall("list_allowed_roots", Empty, r)

RootNext ==
    \/ SetWorkingDirectory
    \/ GetWorkingDirectory
    \/ AddAllowedRoot
    \/ RemoveAllowedRoot
    \/ ListAllowedRoots
    \/ ListDir
    \/ Respond

RootSpec == Init /\ [][RootNext]_vars

-----------------------------------------------------------------------------
(* The command registry and the output windower (spec.md 3, 4.4, 4.5).     *)
(* A record has the fields the tests give it (tests/test_unit.py 604-614); *)
(* the identifier of a record is its place in the registry.                *)

\* how many commands one run registers
MaxCommands == 1

\* how many chunks of output one process writes
MaxChunks == 2

\* the programs that can be spawned; any other name is a missing binary
Spawnable == {"echo"}

Terminal == {"completed", "failed"}

Statuses == {"pending_approval", "running"} \cup Terminal

Known(id) == id \in 1..Len(command_registry)

\* a register that starts the command at once, with no approval step
NewRecord_started(command, args, dir, blocking, wait_ms) ==
    [command |-> command, args |-> args, cwd |-> dir, blocking |-> blocking, wait_ms |-> wait_ms,
     status |-> "running", output |-> <<>>, error |-> "none", exit_code |-> -1]

\* the record register makes
NewRecord(command, args, dir, blocking, wait_ms) ==
    [command |-> command, args |-> args, cwd |-> dir, blocking |-> blocking, wait_ms |-> wait_ms,
     status |-> "pending_approval", output |-> <<>>, error |-> "none", exit_code |-> -1]

RECURSIVE concat(_)
\* the accumulated output: the chunks concatenated in arrival order
concat(chunks) == IF chunks = <<>> THEN Empty ELSE Head(chunks) \o concat(Tail(chunks))

min(x, y) == IF x <= y THEN x ELSE y

\* a windower that counts from the start for either priority
window_from_start(output, priority, char_budget) == SubSeq(output, 1, min(char_budget, Len(output)))

\* the output windower: at most char_budget characters from the start or the end
window(output, priority, char_budget) ==
    IF priority = "top" THEN SubSeq(output, 1, min(char_budget, Len(output)))
    ELSE SubSeq(output, Len(output) - min(char_budget, Len(output)) + 1, Len(output))

\* a status that answers for an unknown identifier as for a fresh record
command_status_default(id, priority, char_budget) ==
    IF ~Known(id) THEN [kind |-> "pending_approval", text |-> Empty]
    ELSE [kind |-> command_registry[id].status, text |-> window(concat(command_registry[id].output), priority, char_budget)]

\* status(identifier, priority, charBudget): NotFound, or the status and the window
command_status(id, priority, char_budget) ==
    IF ~Known(id) THEN [kind |-> "not_found", text |-> Empty]
    ELSE [kind |-> command_registry[id].status, text |-> window(concat(command_registry[id].output), priority, char_budget)]

\* a capture that keeps the latest chunk alone
captured_latest_only(rec, chunk) == [rec EXCEPT !.output = <<chunk>>]

\* a chunk of stdout or stderr is captured: appended as it arrives
captured(rec, chunk) == [rec EXCEPT !.output = Append(@, chunk)]

\* a register that waits whenever a wait budget is given
Waits_without_blocking(rec) == rec.wait_ms > 0

\* the register call waits: blocking with a wait budget
Waits(rec) == rec.blocking /\ rec.wait_ms > 0

\* what a waiting register call waits for
EarlyOutput(rec) == rec.output # <<>> \/ rec.status \in Terminal

\* a start that marks a record failed when the spawn fails and drops the error
started_no_error(rec, g) ==
    IF g.out.exc # "none" THEN rec
    ELSE IF rec.command \notin Spawnable THEN [rec EXCEPT !.status = "failed"]
    ELSE [rec EXCEPT !.status = "running"]

\* start of a pending record whose working directory the gate g judged
started(rec, g) ==
    IF g.out.exc # "none" THEN rec
    ELSE IF rec.command \notin Spawnable THEN [rec EXCEPT !.status = "failed", !.error = "SpawnFailure"]
    ELSE [rec EXCEPT !.status = "running"]

\* an exit that takes the exit code for a failure count: zero fails
exited_inverted(rec, exit_code) ==
    IF exit_code # 0 THEN [rec EXCEPT !.status = "completed", !.exit_code = exit_code]
    ELSE [rec EXCEPT !.status = "failed", !.exit_code = exit_code, !.error = "RuntimeFailure"]

\* the process exits with exit_code
exited(rec, exit_code) ==
    IF exit_code = 0 THEN [rec EXCEPT !.status = "completed", !.exit_code = exit_code]
    ELSE [rec EXCEPT !.status = "failed", !.exit_code = exit_code, !.error = "RuntimeFailure"]

\* arguments of register: command, args, working directory, blocking, waitMs
RegisterInputs ==
    { <<"echo", <<"a b", ";">>, P(<<w>>), FALSE, 1>>,
      <<"echo", <<>>, P(<<w>>), TRUE, 1>>,
      <<"nope", <<"x">>, P(<<w>>), TRUE, 0>> }

\* the chunk a process writes after it wrote written chunks
Chunk(written) == IF written % 2 = 0 THEN <<"a", "b">> ELSE <<"c">>

ExitCodes == {0, 1}

Priorities == {"top", "bottom"}

Budgets == {1, 4}

\* the working directories set before commands are started
CommandRoots == {P(<<w>>)}

\* the answer to a call on the command registry
CommandAnswer(op, arg, kind, text, entries, g) ==
    /\ result' = [op |-> op, arg |-> arg, content |-> Empty, outcome |-> "return", caught |-> "none", kind |-> kind, text |-> text, entries |-> entries]
    /\ gate' = g
    /\ touched' = {}
    /\ prev' = [wd |-> working_directory, cwd |-> cwd, fs |-> fs]
    /\ UNCHANGED <<working_directory, cwd, fs, mutations, wd_set_by, allowed_roots, inflight, last_call>>

\* a file tool called while commands run
ListCommandDir == Idle /\ \E out \in {list_dir(Empty)} : Call("list_dir", Empty, Empty, out)

SetCommandRoot == Idle /\ \E x \in CommandRoots : \E out \in {set_working_directory(x)} : Call("set_working_directory", x, Empty, out)

\* register: the record is made; the call answers at once unless it waits
Register ==
    /\ Idle
    /\ waiting = NoWait
    /\ Len(command_registry) < MaxCommands
    /\ \E x \in RegisterInputs :
        \E rec \in {NewRecord(x[1], x[2], x[3], x[4], x[5])} :
            /\ command_registry' = Append(command_registry, rec)
            /\ IF Waits(rec)
                   THEN /\ waiting' = [id |-> Len(command_registry) + 1, waited |-> 0, call |-> x]
                        /\ UNCHANGED <<working_directory, cwd, fs, result, gate, touched, prev, mutations, wd_set_by, allowed_roots, inflight, last_call>>
               ELSE /\ waiting' = NoWait
                    /\ CommandAnswer("register", x, rec.status, Empty, {Len(command_registry) + 1}, NoGate)

\* a millisecond of the wait budget of the waiting register call passes
Tick ==
    /\ waiting # NoWait
    /\ waiting.waited < command_registry[waiting.id].wait_ms
    /\ waiting' = [waiting EXCEPT !.waited = @ + 1]
    /\ UNCHANGED <<working_directory, cwd, fs, result, gate, touched, prev, mutations, wd_set_by, allowed_roots, command_registry, inflight, last_call>>

\* the waiting register call answers: early output arrived or the budget is spent
RegisterReturn ==
    /\ Idle
    /\ waiting # NoWait
    /\ EarlyOutput(command_registry[waiting.id]) \/ waiting.waited = command_registry[waiting.id].wait_ms
    /\ waiting' = NoWait
    /\ CommandAnswer("register", waiting.call, command_registry[waiting.id].status, Empty, {waiting.id}, NoGate)
    /\ UNCHANGED command_registry

\* start(identifier): the approval step; the working directory passes the gate first
Start ==
    /\ Idle
    /\ \E id \in 1..(MaxCommands + 1) :
        IF ~Known(id) THEN CommandAnswer("start", <<id>>, "not_found", Empty, {}, NoGate) /\ UNCHANGED <<command_registry, waiting>>
        ELSE IF command_registry[id].status # "pending_approval"
            THEN CommandAnswer("start", <<id>>, "not_pending", Empty, {}, NoGate) /\ UNCHANGED <<command_registry, waiting>>
        ELSE \E g \in {GateOf(command_registry[id].cwd, working_directory)} :
            \E rec \in {started(command_registry[id], g)} :
                /\ command_registry' = [command_registry EXCEPT ![id] = rec]
                /\ CommandAnswer("start", <<id>>, IF g.out.exc # "none" THEN "denied" ELSE rec.status, Empty, {}, g)
                /\ UNCHANGED waiting

\* a running process writes a chunk, appended as it arrives
Emit ==
    \E id \in 1..Len(command_registry) :
        /\ command_registry[id].status = "running"
        /\ Len(command_registry[id].output) < MaxChunks
        /\ command_registry' = [command_registry EXCEPT ![id] = captured(@, Chunk(Len(@.output)))]
        /\ UNCHANGED <<working_directory, cwd, fs, result, gate, touched, prev, mutations, wd_set_by, allowed_roots, waiting, inflight, last_call>>

\* the process of the record id exits
ExitOf(id) ==
    /\ Known(id)
    /\ command_registry[id].status = "running"
    /\ \E exit_code \in ExitCodes : command_registry' = [command_registry EXCEPT ![id] = exited(@, exit_code)]
    /\ UNCHANGED <<working_directory, cwd, fs, result, gate, touched, prev, mutations, wd_set_by, allowed_roots, waiting, inflight, last_call>>

Exit == \E id \in 1..(MaxCommands + 1) : ExitOf(id)

\* status(identifier, priority, charBudget)
Status ==
    /\ Idle
    /\ \E id \in 1..(MaxCommands + 1), priority \in Priorities, char_budget \in Budgets :
        \E r \in {command_status(id, priority, char_budget)} : CommandAnswer("status", <<id, priority, char_budget>>, r.kind, r.text, {}, NoGate)
    /\ UNCHANGED <<command_registry, waiting>>

\* list: the identifiers and their status
ListCommands ==
    /\ Idle
    /\ CommandAnswer("list_commands", Empty, "commands", Empty, {<<id, command_registry[id].status>> : id \in 1..Len(command_registry)}, NoGate)
    /\ UNCHANGED <<command_registry, waiting>>

CommandNext ==
    \/ SetCommandRoot
    \/ Register
    \/ Tick
    \/ RegisterReturn
    \/ Start
    \/ Emit
    \/ Exit
    \/ Status
    \/ ListCommands
    \/ ListCommandDir
    \/ Respond

CommandSpec == Init /\ [][CommandNext]_vars

\* every process that runs exits in the end
CommandFairSpec == CommandSpec /\ \A id \in 1..(MaxCommands + 1) : WF_vars(ExitOf(id))

-----------------------------------------------------------------------------
(* Calls that run at the same time.  server.py holds no lock: a tool reads *)
(* server_ctx.working_directory each time its body names it, and           *)
(* set_working_directory assigns it and then changes the process current   *)
(* directory.  Here one file tool (list_dir or write_file) and one         *)
(* set_working_directory run at once, each a statement group at a time.    *)

\* the tool and its arguments: list_dir(subdirectory), write_file(file_path, content)
ConcurrentFileInputs ==
    { <<"list_dir", Empty, Empty>>, <<"list_dir", Rel(<<d>>), Empty>>,
      <<"write_file", Rel(<<f0>>), <<"x">>>>, <<"write_file", P(<<w, f0>>), <<"x">>>> }

\* arguments of the set_working_directory that runs beside the file tool
ConcurrentRootInputs == {P(<<w>>), P(<<e>>), P(<<w, a>>), P(<<w, n>>), P(<<w, p0, n>>)}

\* the other variables a statement group of a running call leaves alone
Aside == <<allowed_roots, command_registry, waiting, last_call>>

\* "Construir la ruta completa": whether the tool reads the working directory for it
builds_from_root(op, arg) == op = "list_dir" \/ ~isabs(arg)

\* the path the tool hands to validate_path, root being the working directory it read
built_path(op, arg, root) ==
    IF op = "list_dir" THEN (IF arg # Empty THEN join(root, arg) ELSE root)
    ELSE IF ~isabs(arg) THEN join(root, arg) ELSE arg

\* the tool after validate_path: what it does to storage and returns
acted(op, arg, content, g) == tool_handlers(IF op = "list_dir" THEN list_dir_gated(g) ELSE write_file_gated(g, arg, content))

\* if not server_ctx.working_directory: return ...
FileBegin ==
    /\ inflight.file.pc = "idle"
    /\ \E x \in ConcurrentFileInputs :
           IF falsy(working_directory)
               THEN Idle /\ Call(x[1], x[2], x[3], NoWorkingDirectory)
               ELSE /\ inflight' = [inflight EXCEPT !.file = [NoFile EXCEPT !.op = x[1], !.arg = x[2], !.content = x[3], !.pc = "build", !.roots = <<working_directory>>]]
                    /\ UNCHANGED <<working_directory, cwd, fs, result, gate, touched, prev, mutations, wd_set_by, Aside>>

\* the path is built, from server_ctx.working_directory as it is now
FileBuild ==
    /\ inflight.file.pc = "build"
    /\ inflight' = [inflight EXCEPT !.file.pc = "validate",
                                    !.file.path = built_path(inflight.file.op, inflight.file.arg, working_directory),
                                    !.file.roots = IF builds_from_root(inflight.file.op, inflight.file.arg) THEN Append(@, working_directory) ELSE @]
    /\ UNCHANGED <<working_directory, cwd, fs, result, gate, touched, prev, mutations, wd_set_by, Aside>>

\* validate_path(path, server_ctx.working_directory), the working directory as it is now
FileValidate ==
    /\ inflight.file.pc = "validate"
    /\ \E g \in {GateOf(inflight.file.path, working_directory)} :
           inflight' = [inflight EXCEPT !.file.pc = "act", !.file.g = g, !.file.roots = Append(@, working_directory)]
    /\ UNCHANGED <<working_directory, cwd, fs, result, gate, touched, prev, mutations, wd_set_by, Aside>>

\* the rest of the body, on the validated path, up to the return
FileAct ==
    /\ inflight.file.pc = "act"
    /\ Idle
    /\ \E out \in {acted(inflight.file.op, inflight.file.arg, inflight.file.content, inflight.file.g)} :
           Answer(inflight.file.op, inflight.file.arg, inflight.file.content, out)
    /\ inflight' = [inflight EXCEPT !.file = NoFile]
    /\ UNCHANGED Aside

\* the directory is looked up and, when missing, made: mk is the os.makedirs
\* call (Ok when the directory was there); an early return ends the call
set_working_directory_prepared(directory_path, normalized_path, existed, mk) ==
    IF mk.exc # "none"
        THEN Idle /\ Call("set_working_directory", directory_path, Empty, set_working_directory_made(normalized_path, mk))
    ELSE IF existed /\ ~isdir(fs, normalized_path)
        THEN Idle /\ Call("set_working_directory", directory_path, Empty, [Base EXCEPT !.kind = "not_a_directory", !.text = normalized_path])
    ELSE /\ mk.fs # fs => mutations < MaxMutations
         /\ fs' = mk.fs
         /\ mutations' = IF mk.fs # fs THEN mutations + 1 ELSE mutations
         /\ inflight' = [inflight EXCEPT !.set = [pc |-> "store", arg |-> directory_path, normalized_path |-> normalized_path]]
         /\ UNCHANGED <<working_directory, cwd, result, gate, touched, prev, wd_set_by, Aside>>

set_working_directory_begun(directory_path, normalized_path) ==
    set_working_directory_prepared(directory_path, normalized_path, exists(fs, normalized_path),
                                   IF exists(fs, normalized_path) THEN Ok(fs, Empty) ELSE makedirs(fs, normalized_path))

SetBegin ==
    /\ inflight.set.pc = "idle"
    /\ \E x \in ConcurrentRootInputs : set_working_directory_begun(x, normalize_path(abspath(expand_home(x))))

\* server_ctx.working_directory = normalized_path
SetStore ==
    /\ inflight.set.pc = "store"
    /\ working_directory' = inflight.set.normalized_path
    /\ wd_set_by' = IF inflight.set.normalized_path # working_directory THEN "set_working_directory" ELSE wd_set_by
    /\ inflight' = [inflight EXCEPT !.set.pc = "chdir"]
    /\ UNCHANGED <<cwd, fs, result, gate, touched, prev, mutations, Aside>>

\* os.chdir(normalized_path) and the return
SetChdir ==
    /\ inflight.set.pc = "chdir"
    /\ Idle
    /\ \E out \in {set_working_directory_handlers(set_working_directory_store(fs, inflight.set.normalized_path, chdir(fs, inflight.set.normalized_path)))} :
           Answer("set_working_directory", inflight.set.arg, Empty, out)
    /\ inflight' = [inflight EXCEPT !.set = NoSet]
    /\ UNCHANGED Aside

ConcurrentNext ==
    \/ FileBegin
    \/ FileBuild
    \/ FileValidate
    \/ FileAct
    \/ SetBegin
    \/ SetStore
    \/ SetChdir
    \/ Respond

ConcurrentSpec == Init /\ [][ConcurrentNext]_vars

-----------------------------------------------------------------------------
(* Calls of set_working_directory one after the other: the answered call   *)
(* is noted, so that the next one can be compared with it.                 *)

\* the answer is handed to the caller, and the call is noted as the last one
RespondNoting == Responded /\ last_call' = [op |-> result.op, arg |-> result.arg]

SetNext ==
    \/ SetWorkingDirectory
    \/ GetWorkingDirectory
    \/ RespondNoting

SetSpec == Init /\ [][SetNext]_vars

-----------------------------------------------------------------------------
(* What the claims speak of                                                *)

\* the names of a normalized absolute path
names(s) == SelectSeq(split(s), LAMBDA x : x # Empty)

\* p is r or lies beneath r, r ending at a boundary between two names of p
Inside(p, r) == IsPrefixOf(names(r), names(p))

StrictlyInside(p, r) == Inside(p, r) /\ Len(names(p)) > Len(names(r))

\* the normalized absolute form validate_path and set_working_directory compute
Normalized(p) == normalize_path(abspath(expand_home(p)))

\* the real path of p in the file system the call found
RealBefore(p) == realpath(prev.fs, p)

FileTools == {"list_dir", "read_file", "write_file", "create_directory", "search_files"}

Tools == FileTools \cup {"set_working_directory", "get_working_directory"}

\* a call of validate_path with a working directory set
Gated == gate.called /\ ~falsy(gate.root)

GateAdmits == gate.called /\ gate.out.exc = "none"

GateDenies == gate.called /\ gate.out.exc = "ValueError"

\* C1: validate_path admits a path only if its normalized absolute form is the
\* working directory or lies beneath it at a boundary between names; a path that
\* only has the working directory as a character prefix is denied.
C1_AdmitsOnlyInsideRoot == GateAdmits => Inside(Normalized(gate.path), gate.root)

\* the working directory as a node, literally and with its links resolved
RootNodes == {names(prev.wd), joinrealpath(prev.fs, <<>>, names(prev.wd))}

\* C2: every node a file tool read, wrote, created or listed lies in or beneath
\* the working directory that was set when the tool ran.
C2_TouchedInsideRoot == (result.op \in FileTools /\ ~falsy(prev.wd)) => \A q \in touched : \E t \in RootNodes : IsPrefixOf(t, q)

\* C3: a path that reads as inside the working directory whose real path is
\* outside it is denied; when the real path is inside, validate_path returns
\* the real path.
C3_SymlinkEscapeDenied ==
    (Gated /\ Inside(Normalized(gate.path), gate.root)) =>
        /\ ~Inside(RealBefore(Normalized(gate.path)), gate.root) => GateDenies
        /\ Inside(RealBefore(Normalized(gate.path)), gate.root) => (GateAdmits /\ gate.out.val = RealBefore(Normalized(gate.path)))

\* no link is met beneath the working directory on the way to p
NoLinkBelowRoot(p, r) ==
    joinrealpath(prev.fs, <<>>, names(p)) = joinrealpath(prev.fs, <<>>, names(r)) \o SubSeq(names(p), Len(names(r)) + 1, Len(names(p)))

\* C4: for every working directory set_working_directory stored, also one whose
\* own path holds a link, a path strictly inside it is admitted and the path
\* returned has the working directory as a prefix.
C4_InsideRootAdmitted ==
    (Gated /\ StrictlyInside(Normalized(gate.path), gate.root) /\ NoLinkBelowRoot(Normalized(gate.path), gate.root)) =>
        (GateAdmits /\ startswith(gate.out.val, gate.root))

\* there is no node at p: the directory of p, links resolved, has no such entry
Missing(p) == Append(joinrealpath(prev.fs, <<>>, names(dirname(p))), basename(p)) \notin DOMAIN prev.fs

\* C5: a path that does not exist yet is admitted when the real path of its
\* parent directory is inside the working directory, and denied when it is outside.
C5_NewPathByParent ==
    (Gated /\ StrictlyInside(Normalized(gate.path), gate.root) /\ Missing(Normalized(gate.path))) =>
        /\ Inside(RealBefore(dirname(Normalized(gate.path))), gate.root) => GateAdmits
        /\ ~Inside(RealBefore(dirname(Normalized(gate.path))), gate.root) => GateDenies

HasHomeMarker(p) == p = Tilde \/ startswith(p, Tilde \o Sl)

\* C6: an argument that is "~" or begins with "~/" is normalized to a path in the
\* home directory, by validate_path and by set_working_directory, which stores it.
C6_HomeMarkerInsideHome ==
    /\ (gate.called /\ HasHomeMarker(gate.path)) => Inside(Normalized(gate.path), Home)
    /\ (result.op = "set_working_directory" /\ HasHomeMarker(result.arg) /\ result.kind = "ok" /\ result.caught = "none") => Inside(working_directory, Home)

\* the node write_file was asked to write: the path joined to the working directory
WriteTarget == resolve(prev.fs, IF isabs(result.arg) THEN result.arg ELSE join(prev.wd, result.arg))

\* C7: write_file on a path where a file exists answers that it already exists
\* and leaves the file as it was.
C7_NoOverwrite ==
    (result.op = "write_file" /\ GateAdmits /\ KindAt(prev.fs, WriteTarget) = "file") =>
        (result.kind = "already_exists" /\ fs = prev.fs)

\* the longest part of the node path q that existed when the call began
RECURSIVE Deepest(_)
Deepest(q) == IF q \in DOMAIN prev.fs \/ q = <<>> THEN q ELSE Deepest(Front(q))

\* the parent directories of the written file are missing, under a directory
\* that allows entries to be made
ParentsMissing ==
    /\ result.op = "write_file"
    /\ GateAdmits
    /\ Front(WriteTarget) \notin DOMAIN prev.fs
    /\ KindAt(prev.fs, Deepest(WriteTarget)) = "dir"
    /\ prev.fs[Deepest(WriteTarget)].acc

\* C8: write_file on an admitted path whose parent directories are missing, at
\* any depth, makes them, writes the file and reports success: afterwards the
\* file holds the written content and every directory above it exists.
C8_WriteCreatesParents ==
    ParentsMissing =>
        /\ result.kind = "saved"
        /\ KindAt(fs, WriteTarget) = "file"
        /\ fs[WriteTarget].content = result.content
        /\ \A i \in 0..(Len(WriteTarget) - 1) : KindAt(fs, SubSeq(WriteTarget, 1, i)) = "dir"

\* two levels of directories were missing and the file was saved
C8_Witness == ParentsMissing /\ Len(WriteTarget) >= Len(Deepest(WriteTarget)) + 3 /\ result.kind = "saved"

\* C9: every tool returns a text for every argument and every outcome of the
\* file system; no exception leaves a tool.
C9_ToolsReturn == result.op \in Tools => result.outcome = "return"

\* a tool met an error of the file system and returned a message
C9_Witness == result.op \in Tools /\ result.caught \in {"PermissionError", "FileNotFoundError", "NotADirectoryError", "IsADirectoryError"} /\ result.outcome = "return"

\* C10: with no working directory set, validate_path raises at once, without
\* touching the file system, and every file tool answers that no working
\* directory is set without reading or changing anything.
C10_NoRootNoAccess ==
    /\ (gate.called /\ falsy(gate.root)) => gate.out = Denied("NoRootsConfigured", {})
    /\ (result.op \in FileTools /\ falsy(prev.wd)) => (result.kind = "no_working_directory" /\ ~gate.called /\ touched = {} /\ fs = prev.fs)

\* write_file was called with no working directory set
C10_Witness == result.op = "write_file" /\ falsy(prev.wd) /\ result.kind = "no_working_directory"

\* a removal of a root that held the working directory of the time
RemovedAroundWorkingDirectory ==
    /\ result.op = "remove_allowed_root"
    /\ result.kind = "removed"
    /\ ~falsy(prev.wd)
    /\ IsPrefixOf(names(result.text), names(prev.wd))

\* C11: removeAllowedRoot of a root that contains the working directory unsets
\* it, and until set_working_directory stores a new one every list_dir() with
\* no path answers that no working directory is set, reading nothing.
C11_RemovedRootClearsWorkingDirectory ==
    /\ RemovedAroundWorkingDirectory => falsy(working_directory)
    /\ wd_set_by = "remove_allowed_root" =>
        /\ falsy(working_directory)
        /\ (result.op = "list_dir" /\ result.arg = Empty) => (result.kind = "no_working_directory" /\ ~gate.called /\ touched = {})

\* list_dir() was called after a removal had unset the working directory
C11_Witness == wd_set_by = "remove_allowed_root" /\ result.op = "list_dir" /\ result.arg = Empty /\ result.kind = "no_working_directory"

\* the normalized absolute form of p when the current directory is c
NormalizedFrom(p, c) == normalize_path(normpath(IF isabs(expand_home(p)) THEN expand_home(p) ELSE join(c, expand_home(p))))

\* the path the set_working_directory call being answered was to store
RootTarget == NormalizedFrom(result.arg, prev.cwd)

\* C12: the stored working directory is unset, or an absolute normalized path
\* that was a directory when it was stored, found so or just made; a
\* set_working_directory whose target exists and is no directory stores nothing.
C12_StoredRootChecked ==
    /\ ~falsy(working_directory) => (isabs(working_directory) /\ normpath(working_directory) = working_directory)
    /\ (result.op = "set_working_directory" /\ working_directory # prev.wd) =>
        /\ working_directory = RootTarget
        /\ isdir(fs, working_directory)
        /\ isdir(prev.fs, working_directory) \/ ~exists(prev.fs, working_directory)
    /\ (result.op = "set_working_directory" /\ exists(prev.fs, RootTarget) /\ ~isdir(prev.fs, RootTarget)) =>
        (working_directory = prev.wd /\ fs = prev.fs /\ result.kind = "not_a_directory")

\* a relative path was given, and the directory it names was made and stored
C12_Witness ==
    /\ result.op = "set_working_directory"
    /\ ~isabs(result.arg)
    /\ ~HasHomeMarker(result.arg)
    /\ working_directory = RootTarget
    /\ ~exists(prev.fs, RootTarget)
    /\ isdir(fs, RootTarget)

\* the register call that made the record of the next state, if this step is one
Registered(x) ==
    /\ Len(command_registry') = Len(command_registry) + 1
    /\ \/ result = NoCall /\ result'.op = "register" /\ result'.arg = x /\ result'.entries = {Len(command_registry')}
       \/ waiting = NoWait /\ waiting'.id = Len(command_registry') /\ waiting'.call = x

\* what every step keeps of the records: none is dropped, a new one comes from
\* register, pending, with the command and the arguments of the call; command
\* and arguments stay; running is entered by start alone
RecordsKept ==
    /\ Len(command_registry') >= Len(command_registry)
    /\ Len(command_registry') > Len(command_registry) =>
        \E x \in RegisterInputs :
            /\ Registered(x)
            /\ command_registry'[Len(command_registry')].status = "pending_approval"
            /\ command_registry'[Len(command_registry')].command = x[1]
            /\ command_registry'[Len(command_registry')].args = x[2]
    /\ \A id \in 1..Len(command_registry) :
        /\ command_registry'[id].command = command_registry[id].command
        /\ command_registry'[id].args = command_registry[id].args
        /\ (command_registry'[id].status = "running" /\ command_registry[id].status # "running") =>
            (result'.op = "start" /\ result'.arg = <<id>> /\ result = NoCall)
        /\ command_registry[id].status \in Terminal => command_registry'[id].status = command_registry[id].status

\* the moves of a status along pending_approval -> running -> {completed, failed}
ChainMoves == {<<"pending_approval", "running">>, <<"running", "completed">>, <<"running", "failed">>}

\* C13, as stated: a record is made by register, pending, with command and
\* arguments verbatim; its status moves only along pending_approval -> running
\* -> {completed, failed}, to running only by start; completed and failed are
\* final, and a record is never dropped.
C13_LifecycleChain ==
    [][/\ RecordsKept
       /\ \A id \in 1..Len(command_registry) :
            \/ command_registry'[id].status = command_registry[id].status
            \/ <<command_registry[id].status, command_registry'[id].status>> \in ChainMoves]_vars

\* C13, amended: beside the moves of the chain, start moves a pending record
\* whose process cannot be spawned straight to failed.
C13_LifecycleWithSpawnFailure ==
    [][/\ RecordsKept
       /\ \A id \in 1..Len(command_registry) :
            \/ command_registry'[id].status = command_registry[id].status
            \/ <<command_registry[id].status, command_registry'[id].status>> \in ChainMoves
            \/ /\ command_registry[id].status = "pending_approval"
               /\ command_registry'[id].status = "failed"
               /\ command_registry'[id].error = "SpawnFailure"
               /\ result'.op = "start"
               /\ result'.arg = <<id>>]_vars

\* a record that went through the whole chain is asked for and found, with its
\* arguments as they were given
C13_Witness ==
    /\ result.op = "status"
    /\ Known(result.arg[1])
    /\ result.kind = "completed"
    /\ command_registry[result.arg[1]].status = "completed"
    /\ command_registry[result.arg[1]].args = <<"a b", ";">>

\* this step answers a status call for the record id
StatusStep(id) == result = NoCall /\ result'.op = "status" /\ result'.arg[1] = id /\ Known(id)

\* C14: the record of a command whose process exits reaches a terminal state in
\* the end; status(id, top, N) asked once the process has exited with code zero
\* answers completed, with the whole captured output when it has at most N
\* characters.
C14_ExitedCommandCompletes ==
    /\ \A id \in 1..(MaxCommands + 1) :
        (Known(id) /\ command_registry[id].status = "running") ~> (Known(id) /\ command_registry[id].status \in Terminal)
    /\ [][\A id \in 1..Len(command_registry) :
            (StatusStep(id) /\ result'.arg[2] = "top" /\ command_registry[id].exit_code = 0) =>
                /\ result'.kind = "completed"
                /\ Len(concat(command_registry[id].output)) <= result'.arg[3] => result'.text = concat(command_registry[id].output)]_vars

\* status(1, top, 4) after the process wrote "ab" and "c" and exited with zero
C14_Witness ==
    /\ result.op = "status"
    /\ result.arg = <<1, "top", 4>>
    /\ result.kind = "completed"
    /\ result.text = <<"a", "b", "c">>
    /\ command_registry[1].exit_code = 0

\* this step is a start of the pending record id that the gate admitted
StartStep(id) ==
    /\ result = NoCall
    /\ result'.op = "start"
    /\ result'.arg = <<id>>
    /\ command_registry[id].status = "pending_approval"
    /\ gate'.called
    /\ gate'.out.exc = "none"

\* C15: when a running process exits its record becomes completed if the exit
\* code is zero and failed if not; a process that cannot be spawned takes its
\* record from pending_approval to failed, with the error, never through
\* running; the error is set only on a move to failed.
C15_ExitAndSpawnFailure ==
    [][\A id \in 1..Len(command_registry) :
        /\ (command_registry[id].status = "running" /\ command_registry'[id].status # "running") =>
            /\ command_registry'[id].exit_code # -1
            /\ command_registry'[id].status = "completed" <=> command_registry'[id].exit_code = 0
            /\ command_registry'[id].status = "failed" <=> command_registry'[id].exit_code # 0
        /\ (StartStep(id) /\ command_registry[id].command \notin Spawnable) =>
            /\ command_registry'[id].status = "failed"
            /\ command_registry'[id].error # "none"
            /\ command_registry'[id].output = <<>>
        /\ command_registry'[id].status = "pending_approval" => command_registry[id].status = "pending_approval"
        /\ command_registry'[id].error # command_registry[id].error =>
            /\ command_registry[id].error = "none"
            /\ command_registry[id].status # "failed"
            /\ command_registry'[id].status = "failed"]_vars

\* start answered failed for a command whose binary is missing
C15_Witness ==
    /\ result.op = "start"
    /\ result.kind = "failed"
    /\ command_registry[result.arg[1]].status = "failed"
    /\ command_registry[result.arg[1]].error = "SpawnFailure"
    /\ command_registry[result.arg[1]].exit_code = -1

\* C16: status on an identifier that is not in the registry answers NotFound,
\* for every priority and budget, and leaves the registry as it was.
C16_UnknownIdNotFound ==
    [][(result = NoCall /\ result'.op = "status" /\ ~Known(result'.arg[1])) =>
        (result'.kind = "not_found" /\ result'.text = Empty /\ command_registry' = command_registry)]_vars

\* status was asked for an identifier beyond those of a registry that holds a record
C16_Witness == result.op = "status" /\ Len(command_registry) >= 1 /\ ~Known(result.arg[1]) /\ result.kind = "not_found"

\* the accumulated output of the record a status step asks for
Accumulated(id) == concat(command_registry[id].output)

C18_OutputAppendOnly ==
    [][\A id \in 1..Len(command_registry) :
        /\ Len(command_registry'[id].output) >= Len(command_registry[id].output)
        /\ SubSeq(command_registry'[id].output, 1, Len(command_registry[id].output)) = command_registry[id].output
        /\ command_registry[id].status \in Terminal => command_registry'[id].output = command_registry[id].output]_vars

\* a record that ended with two chunks of output
C18_Witness == \E id \in 1..Len(command_registry) : command_registry[id].status \in Terminal /\ Len(command_registry[id].output) >= 2

\* the tools that only look something up: status, list and the file tools
LookupTools == {"status", "list_commands"} \cup FileTools

\* C19: a register with blocking=false answers in the step that makes the
\* record, whatever waitMs is and whatever the process does; a register with
\* blocking=true waits no longer than waitMs and then answers the status of the
\* time, finished or not; status, list and the file tools wait for nothing.
C19_OnlyRegisterWaits ==
    /\ [](waiting # NoWait =>
            /\ Known(waiting.id)
            /\ command_registry[waiting.id].blocking
            /\ waiting.waited <= command_registry[waiting.id].wait_ms)
    /\ [][/\ (Len(command_registry') > Len(command_registry) /\ ~command_registry'[Len(command_registry')].blocking) =>
                (result'.op = "register" /\ result'.entries = {Len(command_registry')} /\ waiting' = NoWait)
          /\ (result = NoCall /\ result'.op \in LookupTools) => (waiting' = waiting /\ command_registry' = command_registry)
          /\ (waiting = NoWait /\ waiting' # NoWait) => Len(command_registry') > Len(command_registry)]_vars

\* a blocking register answered "running": its wait budget was spent before
\* the started process wrote anything
C19_Witness ==
    /\ result.op = "register"
    /\ result.arg[4]
    /\ result.arg[5] > 0
    /\ result.kind = "running"
    /\ command_registry[1].output = <<>>

\* the absolute path validate_path works on, before links are resolved
AbsoluteBefore(p) == abspath(expand_home(p))

\* C20: a path inside the working directory that does not exist and whose
\* parent directory does not exist either is denied (ParentNotFound); a path
\* that does not exist yet and is admitted is returned as the absolute path
\* given, its links unresolved.
C20_NewPathUnresolved ==
    (Gated /\ StrictlyInside(Normalized(gate.path), gate.root) /\ Missing(Normalized(gate.path))) =>
        /\ ~exists(prev.fs, dirname(Normalized(gate.path))) => (GateDenies /\ gate.out.reason = "ParentNotFound")
        /\ GateAdmits => gate.out.val = AbsoluteBefore(gate.path)

\* the working directory values the running file tool has read so far
RootsRead == {inflight.file.roots[x] : x \in DOMAIN inflight.file.roots}

\* C21: while set_working_directory runs beside a file tool, the tool checks
\* that a working directory is set, builds its path and validates it against
\* one single value of the working directory (the old one or the new one),
\* and it touches storage only at a path that validation admitted.
C21_OneRootPerOperation ==
    /\ Cardinality(RootsRead) <= 1
    /\ (inflight.file.pc = "act" /\ inflight.file.g.out.exc = "none") => Inside(Normalized(inflight.file.path), inflight.file.g.root)
    /\ (result.op \in {"list_dir", "write_file"} /\ touched # {}) => GateAdmits

\* set_working_directory answered with an error message
SetFailed == result.op = "set_working_directory" /\ result.kind \in {"create_error", "not_a_directory", "error"}

\* C22: a set_working_directory call that returns an error leaves the stored
\* working directory and the process current directory as they were before
\* the call; so whenever a working directory is set, the process current
\* directory is that directory.
C22_FailedSetLeavesState ==
    /\ SetFailed => (working_directory = prev.wd /\ cwd = prev.cwd)
    /\ ~falsy(working_directory) => resolve(fs, cwd) = resolve(fs, working_directory)

\* the call in result repeats the call answered just before it
TwiceInARow == result.op = "set_working_directory" /\ last_call = [op |-> "set_working_directory", arg |-> result.arg]

\* set_working_directory stored a working directory
SetStored == result.op = "set_working_directory" /\ result.kind \in {"ok", "error"}

\* C23 as stated: for every argument (absolute, relative or home-relative),
\* set_working_directory(path) called twice in a row leaves the working
\* directory the first call left, and the working directory a call stores
\* is the one it stores in the state after construction, whatever earlier
\* calls set.
C23_SetIdempotent ==
    /\ TwiceInARow => working_directory = prev.wd
    /\ SetStored => working_directory = NormalizedFrom(result.arg, Sl)

\* C23 amended: the same for the arguments that are absolute once the home
\* marker is expanded; a relative argument is resolved against the process
\* current directory, which earlier calls change.
C23_SetIdempotentWhenAbsolute ==
    isabs(expand_home(result.arg)) =>
        /\ TwiceInARow => working_directory = prev.wd
        /\ SetStored => working_directory = normalize_path(normpath(expand_home(result.arg)))

\* set_working_directory("/k") stored "/k" a second time in a row, "/k"
\* being a link to the directory the process is in
C23_Witness ==
    /\ TwiceInARow
    /\ result.arg = P(<<k>>)
    /\ result.kind = "ok"
    /\ working_directory = P(<<k>>)
    /\ cwd = P(<<w>>)

====
